---- MODULE Spec2Model ----
(***************************************************************************)
(* Reputation fuzzing: the laddering attack (ladder_attack.go) and the     *)
(* surge attack (surge_attack.go), with the scenarios their fuzz targets   *)
(* and tests feed them.                                                    *)
(*                                                                         *)
(* Every amount of the program is a Go uint64.  TLC's integers are 32 bits *)
(* wide, so a uint64 is modelled as its eight bytes, least significant     *)
(* first, and the arithmetic below is the arithmetic of the machine:       *)
(* addition, subtraction and multiplication wrap modulo 2^64, division     *)
(* truncates.  Each operator first evaluates its operands (x \in {a}), so  *)
(* that a nested expression is computed once.                              *)
(***************************************************************************)
EXTENDS Integers, Sequences, FiniteSets, TLC

\* ------------------------------------------------------------- uint64

Limbs == 8

Base == 256

\* The uint64 of a small non-negative integer (below 2^31).
U64(n) ==
    [i \in 1..Limbs |->
        CASE i = 1 -> n % Base
          [] i = 2 -> (n \div Base) % Base
          [] i = 3 -> (n \div (Base * Base)) % Base
          [] i = 4 -> (n \div (Base * Base * Base)) % Base
          [] OTHER -> 0]

Zero == U64(0)

MaxUint64 == [i \in 1..Limbs |-> Base - 1]

\* Whether a uint64 is below 2^23, and then its value as an integer.
IsSmall(a) == a[3] < 128 /\ \A i \in 4..Limbs : a[i] = 0

ToInt(a) == a[1] + Base * a[2] + Base * Base * a[3]

\* a < b: the first differing byte from the top decides.
LtBytes(a, b) ==
    \E i \in 1..Len(a) :
        /\ a[i] < b[i]
        /\ \A j \in (i + 1)..Len(a) : a[j] = b[j]

Lt(a, b) == \E x \in {a}, y \in {b} : LtBytes(x, y)

Le(a, b) == ~Lt(b, a)

\* a + b modulo 2^(8 * Len(a)).
AddBytes(a, b) ==
    LET c[i \in 0..Len(a)] ==
            IF i = 0 THEN 0 ELSE (a[i] + b[i] + c[i - 1]) \div Base
    IN  [i \in 1..Len(a) |-> (a[i] + b[i] + c[i - 1]) % Base]

Add(a, b) == CHOOSE out \in {AddBytes(x, y) : x \in {a}, y \in {b}} : TRUE

\* a - b modulo 2^(8 * Len(a)).
SubBytes(a, b) ==
    LET w[i \in 0..Len(a)] ==
            IF i = 0 THEN 0
            ELSE IF a[i] - b[i] - w[i - 1] < 0 THEN 1 ELSE 0
    IN  [i \in 1..Len(a) |-> (a[i] - b[i] - w[i - 1] + Base) % Base]

Sub(a, b) == CHOOSE out \in {SubBytes(x, y) : x \in {a}, y \in {b}} : TRUE

\* a * k modulo 2^64, for an integer k below 2^23.
MulSmallBytes(a, k) ==
    LET c[i \in 0..Limbs] ==
            IF i = 0 THEN 0 ELSE (a[i] * k + c[i - 1]) \div Base
    IN  [i \in 1..Limbs |-> (a[i] * k + c[i - 1]) % Base]

MulSmall(a, k) ==
    CHOOSE out \in {MulSmallBytes(x, y) : x \in {a}, y \in {k}} : TRUE

\* a * 256^s modulo 2^64.
ShiftLimbs(a, s) == [i \in 1..Limbs |-> IF i > s THEN a[i - s] ELSE 0]

\* The partial products of a * b from byte j of b on.
RECURSIVE MulFrom(_, _, _)
MulFrom(a, b, j) ==
    IF j > Limbs THEN Zero
    ELSE IF b[j] = 0 THEN MulFrom(a, b, j + 1)
    ELSE Add(ShiftLimbs(MulSmall(a, b[j]), j - 1), MulFrom(a, b, j + 1))

\* a * b modulo 2^64.
Mul(a, b) == CHOOSE out \in {MulFrom(x, y, 1) : x \in {a}, y \in {b}} : TRUE

\* a / d truncated, for an integer d with 0 < d < 2^23.
DivSmallBytes(a, d) ==
    LET r[i \in 1..(Limbs + 1)] ==
            IF i = Limbs + 1 THEN 0 ELSE (r[i + 1] * Base + a[i]) % d
    IN  [i \in 1..Limbs |-> (r[i + 1] * Base + a[i]) \div d]

\* Bit k (0 is the lowest) of a.
Bit(a, k) == (a[(k \div 8) + 1] \div (2 ^ (k % 8))) % 2

\* The nine-byte value 2 * r + bit, for a nine-byte remainder r below 2^64.
Shl1(r, bit) ==
    [i \in 1..(Limbs + 1) |->
        IF i = 1 THEN (2 * r[1] + bit) % Base
        ELSE (2 * r[i] + (r[i - 1] \div 128)) % Base]

Wide(a) == [i \in 1..(Limbs + 1) |-> IF i <= Limbs THEN a[i] ELSE 0]

\* One step of binary long division: s is the remainder with the next bit
\* brought down; the pair is <<quotient, remainder>>.
DivStep(d, k, q, s) ==
    IF Le(d, s) THEN <<[q EXCEPT ![(k \div 8) + 1] = @ + 2 ^ (k % 8)], Sub(s, d)>>
    ELSE <<q, s>>

RECURSIVE DivBits(_, _, _, _)
DivBits(a, d, k, qr) ==
    IF k < 0 THEN qr[1]
    ELSE CHOOSE out \in
            { DivBits(a, d, k - 1, next)
              : next \in { DivStep(d, k, qr[1], s)
                           : s \in {Shl1(qr[2], Bit(a, k))} } } : TRUE

DivBytes(a, d) ==
    IF IsSmall(d) THEN DivSmallBytes(a, ToInt(d))
    ELSE DivBits(a, Wide(d), 8 * Limbs - 1, <<Zero, Wide(Zero)>>)

\* a / d truncated, for d # 0.
Div(a, d) == CHOOSE out \in {DivBytes(x, y) : x \in {a}, y \in {d}} : TRUE

\* ------------------------------------------------------- ladder attack

revenuePeriodWeeks == 2

reputationPeriodWeeks == 24

\* type channel
Channel(reputation, revenue) ==
    [incomingReputation |-> reputation, outgoingRevenue |-> revenue]

\* The loop of newLadderingAttack over cfg.trafficFlows, from flow i on.
\* trafficPortion is a uint8 and is not validated: a zero portion divides
\* by zero, which is Go's run-time panic.
RECURSIVE BuildChannels(_, _, _, _)
BuildChannels(incomingTraffic, trafficFlows, i, channels) ==
    IF i > Len(trafficFlows) THEN [status |-> "ok", channels |-> channels]
    ELSE IF trafficFlows[i] = 0 THEN [status |-> "panic", channels |-> <<>>]
    ELSE CHOOSE out \in
            { BuildChannels(traffic, trafficFlows, i + 1,
                  Append(channels,
                         Channel(traffic,
                                 Div(Mul(traffic, U64(revenuePeriodWeeks)),
                                     U64(reputationPeriodWeeks)))))
              : traffic \in { Div(Mul(incomingTraffic, U64(100)),
                                  U64(trafficFlows[i])) } } : TRUE

\* newLadderingAttack with a loop that starts at the second flow.
newLadderingAttackSkipFirst(c) ==
    IF Len(c.trafficFlows) < 3 THEN [status |-> "error", channels |-> <<>>]
    ELSE BuildChannels(c.firstNodeTraffic, c.trafficFlows, 2, <<>>)

\* newLadderingAttack with the length check written len(trafficFlows) < 2.
newLadderingAttackTwoFlows(c) ==
    IF Len(c.trafficFlows) < 2 THEN [status |-> "error", channels |-> <<>>]
    ELSE BuildChannels(c.firstNodeTraffic, c.trafficFlows, 1, <<>>)

\* newLadderingAttack(cfg): status "ok" with the channels, "error" (the error
\* return, no ladder) or "panic".
newLadderingAttack(c) ==
    IF Len(c.trafficFlows) < 3 THEN [status |-> "error", channels |-> <<>>]
    ELSE BuildChannels(c.firstNodeTraffic, c.trafficFlows, 1, <<>>)

\* The candidate reputation never replaced by the hop's incomingReputation.
CandidateReputationStale(channels, attackerPayment, i) == attackerPayment

\* The candidate reputation at hop i: the attacker's payment at the first
\* hop, the previous hop's incomingReputation afterwards.
CandidateReputation(channels, attackerPayment, i) ==
    IF i = 1 THEN attackerPayment ELSE channels[i - 1].incomingReputation

\* currentHopEndorsed with the hold multiplied in instead of divided out.
CurrentHopEndorsedTimesHold(channels, attackerPayment, htlcHold, i) ==
    Div(Mul(Mul(Sub(CandidateReputation(channels, attackerPayment, i),
                    channels[i].outgoingRevenue),
                U64(90)),
            htlcHold),
        U64(600))

\* currentHopEndorsed with the surplus scaled by 100 where the cost formula
\* divides by 90.
CurrentHopEndorsedAsymmetric(channels, attackerPayment, htlcHold, i) ==
    Div(Mul(Sub(CandidateReputation(channels, attackerPayment, i),
                channels[i].outgoingRevenue),
            U64(100)),
        Mul(Mul(htlcHold, U64(10)), U64(60)))

\* currentHopEndorsed at hop i (the divisor is not zero).
CurrentHopEndorsed(channels, attackerPayment, htlcHold, i) ==
    Div(Mul(Sub(CandidateReputation(channels, attackerPayment, i),
                channels[i].outgoingRevenue),
            U64(90)),
        Mul(Mul(htlcHold, U64(10)), U64(60)))

\* The loop of totalEndorsedOnTarget from hop i on (every hop but the last),
\* with the running totalEndorsed.
RECURSIVE EndorseFrom(_, _, _, _, _)
EndorseFrom(channels, attackerPayment, htlcHold, i, totalEndorsed) ==
    IF i > Len(channels) - 1 THEN [panic |-> FALSE, value |-> totalEndorsed]
    ELSE IF Lt(CandidateReputation(channels, attackerPayment, i),
               channels[i].outgoingRevenue)
    THEN [panic |-> FALSE, value |-> Zero]
    ELSE IF Mul(Mul(htlcHold, U64(10)), U64(60)) = Zero
    THEN [panic |-> TRUE, value |-> Zero]
    ELSE CHOOSE out \in
            { IF currentHopEndorsed = Zero THEN [panic |-> FALSE, value |-> Zero]
              ELSE IF totalEndorsed = Zero \/ Lt(currentHopEndorsed, totalEndorsed)
              THEN EndorseFrom(channels, attackerPayment, htlcHold, i + 1,
                               currentHopEndorsed)
              ELSE EndorseFrom(channels, attackerPayment, htlcHold, i + 1,
                               totalEndorsed)
              : currentHopEndorsed \in
                  { CurrentHopEndorsed(channels, attackerPayment, htlcHold, i) } }
            : TRUE

\* l.totalEndorsedOnTarget(attackerPayment, htlcHold): the value returned, or
\* the panic of a division by a zero htlcHold * 10 * 60.
totalEndorsedOnTarget(channels, attackerPayment, htlcHold) ==
    EndorseFrom(channels, attackerPayment, htlcHold, 1, Zero)

\* htlcReputationCost with the constants of the capacity formula.
htlcReputationCostInverted(amount, height) ==
    Div(Mul(Mul(amount, height), U64(90)), U64(600))

\* htlcReputationCost is the cost of getting a htlc endorsed.
htlcReputationCost(amount, height) ==
    Div(Mul(Mul(Mul(amount, height), U64(10)), U64(60)), U64(90))

\* The outcome attackOutcome builds before its early return.
OutcomeBase(targetNode, finalNodeRevenue, slowJamCost) ==
    [targetReputation |-> targetNode.incomingReputation,
     targetThreshold |-> finalNodeRevenue,
     reputationChange |-> Zero,
     targetCost |-> Add(targetNode.outgoingRevenue, slowJamCost)]

\* l.attackOutcome(totalEndorsed, htlcHold)
attackOutcome(channels, totalEndorsed, htlcHold) ==
    LET chanCount == Len(channels)
        finalNodeRevenue == channels[chanCount].outgoingRevenue
        targetNode == channels[chanCount - 1]
        slowJamCost == htlcReputationCost(totalEndorsed, htlcHold)
        outcome == OutcomeBase(targetNode, finalNodeRevenue, slowJamCost)
    IN  IF Lt(targetNode.incomingReputation, finalNodeRevenue) THEN outcome
        ELSE [outcome EXCEPT !.reputationChange = slowJamCost]

\* ladderCheaper with the comparison turned around.
ladderCheaperFlipped(a, attackerPayment) == Lt(a.targetCost, attackerPayment)

ladderCheaper(a, attackerPayment) == Lt(attackerPayment, a.targetCost)

lostReputation(a) ==
    Lt(a.targetReputation, Add(a.targetThreshold, a.reputationChange))

effective(a, attackerPayment) ==
    ladderCheaper(a, attackerPayment) /\ lostReputation(a)

\* The fuzz target's filter on the built ladder: the revenue threshold does
\* not decrease along the route.
RevenueIncreasing(channels) ==
    \A i \in 2..Len(channels) :
        Le(channels[i - 1].outgoingRevenue, channels[i].outgoingRevenue)

\* -------------------------------------------------------- surge attack

minimumHTLCReputation == 1700000

revenueFromReputation(reputation) ==
    Div(Mul(reputation, U64(revenuePeriodWeeks)), U64(reputationPeriodWeeks))

SurgeOutcome(cutoff, peace, attack) ==
    [cutoffReputation |-> cutoff, peaceRevenue |-> peace, attackRevenue |-> attack]

\* The loop of surgeAttack with the cutoff test written i < cutoffIndex: the
\* peer at the cutoff rank keeps earning and is not the one cut off.
RECURSIVE SurgeLoopStrictCutoff(_, _, _, _)
SurgeLoopStrictCutoff(peers, cutoffIndex, i, acc) ==
    IF i > Len(peers) THEN acc
    ELSE CHOOSE out \in
            { SurgeLoopStrictCutoff(peers, cutoffIndex, i + 1, next)
              : next \in
                  { IF i - 1 < cutoffIndex
                    THEN SurgeOutcome(peers[i],
                                      Add(acc.peaceRevenue, peerContribution),
                                      acc.attackRevenue)
                    ELSE SurgeOutcome(acc.cutoffReputation,
                                      Add(acc.peaceRevenue, peerContribution),
                                      Add(acc.attackRevenue, peerContribution))
                    : peerContribution \in {revenueFromReputation(peers[i])} } }
            : TRUE

\* The loop of surgeAttack over the sorted peers, from the peer of rank i
\* (Go's index i - 1) on; acc holds reputationToCutOff, twoWeekRevenue and
\* attackRevenue.
RECURSIVE SurgeLoop(_, _, _, _)
SurgeLoop(peers, cutoffIndex, i, acc) ==
    IF i > Len(peers) THEN acc
    ELSE CHOOSE out \in
            { SurgeLoop(peers, cutoffIndex, i + 1, next)
              : next \in
                  { IF i - 1 <= cutoffIndex
                    THEN SurgeOutcome(peers[i],
                                      Add(acc.peaceRevenue, peerContribution),
                                      acc.attackRevenue)
                    ELSE SurgeOutcome(acc.cutoffReputation,
                                      Add(acc.peaceRevenue, peerContribution),
                                      Add(acc.attackRevenue, peerContribution))
                    : peerContribution \in {revenueFromReputation(peers[i])} } }
            : TRUE

\* surgeAttack with the bound check written cutoffIndex > len(honestPeers).
surgeAttackLooseBound(honestPeers, cutoffIndex) ==
    IF cutoffIndex > Len(honestPeers)
    THEN [err |-> TRUE, peers |-> honestPeers,
          outcome |-> SurgeOutcome(Zero, Zero, Zero)]
    ELSE CHOOSE out \in
            { [err |-> FALSE, peers |-> sorted,
               outcome |-> SurgeLoop(sorted, cutoffIndex, 1,
                                     SurgeOutcome(Zero, Zero, Zero))]
              : sorted \in {SortSeq(honestPeers, Lt)} } : TRUE

\* surgeAttack(honestPeers, cutoffIndex): whether it returned an error, the
\* caller's slice afterwards (sort.Slice sorts it in place) and the outcome.
surgeAttack(honestPeers, cutoffIndex) ==
    IF cutoffIndex > Len(honestPeers) - 1
    THEN [err |-> TRUE, peers |-> honestPeers,
          outcome |-> SurgeOutcome(Zero, Zero, Zero)]
    ELSE CHOOSE out \in
            { [err |-> FALSE, peers |-> sorted,
               outcome |-> SurgeLoop(sorted, cutoffIndex, 1,
                                     SurgeOutcome(Zero, Zero, Zero))]
              : sorted \in {SortSeq(honestPeers, Lt)} } : TRUE

\* success() with the attack revenue left out of the node's take.
successWithoutAttackRevenue(s) ==
    LET htlcEndorsed == htlcReputationCost(U64(minimumHTLCReputation), U64(100))
    IN  IF Lt(s.cutoffReputation, Add(s.peaceRevenue, htlcEndorsed))
        THEN [success |-> FALSE, err |-> FALSE]
        ELSE IF Lt(s.peaceRevenue, s.attackRevenue)
        THEN [success |-> FALSE, err |-> TRUE]
        ELSE [success |-> Lt(Sub(s.cutoffReputation, s.peaceRevenue),
                             s.peaceRevenue),
              err |-> FALSE]

\* s.success(): the boolean and whether an error came with it.
success(s) ==
    LET htlcEndorsed == htlcReputationCost(U64(minimumHTLCReputation), U64(100))
    IN  IF Lt(s.cutoffReputation, Add(s.peaceRevenue, htlcEndorsed))
        THEN [success |-> FALSE, err |-> FALSE]
        ELSE IF Lt(s.peaceRevenue, s.attackRevenue)
        THEN [success |-> FALSE, err |-> TRUE]
        ELSE [success |-> Lt(Add(Sub(s.cutoffReputation, s.peaceRevenue),
                                 s.attackRevenue),
                             s.peaceRevenue),
              err |-> FALSE]

\* ------------------------------------------------------------ scenarios

\* Longest generated route and largest generated peer set.
MaxFlows == 3

MaxPeers == 3

\* The protocol maximum FuzzLadderAttack restricts the hold time to.
protocolMaxHold == 2016

\* Traffic portions: uint8 values in and out of the range [1, 100].
FlowValues == {0, 1, 10, 50, 100, 200}

\* 10^17: with it the traffic overflows a uint64 on the second hop.
BigTraffic == Mul(U64(1000000000), U64(100000000))

FirstNodeTraffics == {U64(120000), BigTraffic}

\* The seed of FuzzLadderAttack, which is the route of TestLadderAttackSetup.
SeedFlows == <<100, 10, 25, 50>>

SeedCfg == [firstNodeTraffic |-> U64(120000), trafficFlows |-> SeedFlows]

Configs ==
    {SeedCfg} \cup
    { [firstNodeTraffic |-> f, trafficFlows |-> fl]
      : f \in FirstNodeTraffics,
        fl \in UNION { [1..n -> FlowValues] : n \in 0..MaxFlows } }

Payments == {Zero, U64(30000), U64(55000), MaxUint64}

\* 2^64 \div 600 + 1: the hold whose htlcHold * 10 * 60 wraps to 584.
WrapHold == Add(Mul(U64(30744573), U64(1000000000)), U64(456182587))

Holds == {Zero, U64(1), U64(300), U64(protocolMaxHold), WrapHold}

\* Peer amounts in msat: 20000, 7 * 10^9, 8 * 10^9 and 66 * 10^9;
\* FuzzSurgeAttack admits amounts up to MaxPeerAmount = 10^11.
MaxPeerAmount == Mul(U64(1000000000), U64(100))

PeerAmounts ==
    {U64(20000), Mul(U64(1000000000), U64(7)), Mul(U64(1000000000), U64(8)),
     Mul(U64(1000000000), U64(66))}

\* 2^63 - 1, the amount with the largest contribution: doubling it does not
\* wrap, and revenueFromReputation gives (2^64 - 2) / 24.
BigPeerAmount == [i \in 1..Limbs |-> IF i = Limbs THEN 127 ELSE 255]

\* The number of such peers whose contributions sum to 2^64 - 16; one more
\* contribution of 16 or above wraps twoWeekRevenue.
BigPeerCount == 24

\* 25 peers of 2^63 - 1: twoWeekRevenue wraps on the last one.
OverflowPeers == [i \in 1..(BigPeerCount + 1) |-> BigPeerAmount]

\* A peer of 192 (contribution 16) and 24 peers of 2^63 - 1: twoWeekRevenue
\* wraps to 0.
SmallOverflowPeers == <<U64(192)>> \o [i \in 1..BigPeerCount |-> BigPeerAmount]

PeerLists ==
    UNION { [1..n -> PeerAmounts] : n \in 0..MaxPeers }
        \cup {OverflowPeers, SmallOverflowPeers}

Cutoffs == 0..(MaxPeers + 2)

VARIABLES
    pc,               \* where the run of a test stands
    cfg,              \* the ladderingAttackCfg
    ladder,           \* what newLadderingAttack returned
    attackerPayment,
    htlcHold,
    endorsed,         \* what totalEndorsedOnTarget returned
    outcome,          \* the attackOutcome
    honestPeers,      \* the caller's slice of peer amounts
    cutoffIndex,
    surge,            \* what surgeAttack returned
    verdict           \* what success() returned

vars ==
    <<pc, cfg, ladder, attackerPayment, htlcHold, endorsed, outcome,
      honestPeers, cutoffIndex, surge, verdict>>

ladderVars == <<cfg, ladder, attackerPayment, htlcHold, endorsed, outcome>>

surgeVars == <<honestPeers, cutoffIndex, surge, verdict>>

NoOutcome ==
    [targetReputation |-> Zero, targetThreshold |-> Zero,
     reputationChange |-> Zero, targetCost |-> Zero]

Init ==
    /\ pc = "idle"
    /\ cfg = [firstNodeTraffic |-> Zero, trafficFlows |-> <<>>]
    /\ ladder = [status |-> "none", channels |-> <<>>]
    /\ attackerPayment = Zero
    /\ htlcHold = Zero
    /\ endorsed = [panic |-> FALSE, value |-> Zero]
    /\ outcome = NoOutcome
    /\ honestPeers = <<>>
    /\ cutoffIndex = 0
    /\ surge = [err |-> FALSE, peers |-> <<>>,
                outcome |-> SurgeOutcome(Zero, Zero, Zero)]
    /\ verdict = [success |-> FALSE, err |-> FALSE]

\* ladder, err := newLadderingAttack(cfg)
NewLadderingAttack ==
    /\ pc = "idle"
    /\ \E c \in Configs :
        /\ cfg' = c
        /\ ladder' = newLadderingAttack(c)
    /\ pc' = "built"
    /\ UNCHANGED <<attackerPayment, htlcHold, endorsed, outcome>>
    /\ UNCHANGED surgeVars

\* totalEndorsed := ladder.totalEndorsedOnTarget(attackerPayment, cltvTotal)
TotalEndorsedOnTarget ==
    /\ pc = "built"
    /\ ladder.status = "ok"
    /\ \E p \in Payments, h \in Holds :
        /\ attackerPayment' = p
        /\ htlcHold' = h
        /\ endorsed' = totalEndorsedOnTarget(ladder.channels, p, h)
    /\ pc' = "endorsed"
    /\ UNCHANGED <<cfg, ladder, outcome>>
    /\ UNCHANGED surgeVars

\* outcome := ladder.attackOutcome(totalEndorsed, cltvTotal)
AttackOutcome ==
    /\ pc = "endorsed"
    /\ ~endorsed.panic
    /\ outcome' = attackOutcome(ladder.channels, endorsed.value, htlcHold)
    /\ pc' = "evaluated"
    /\ UNCHANGED <<cfg, ladder, attackerPayment, htlcHold, endorsed>>
    /\ UNCHANGED surgeVars

\* honestPeers := make([]uint64, peerCount), filled from the input, and the
\* cutoff drawn for it.
FuzzSurgeInput ==
    /\ pc = "idle"
    /\ \E peers \in PeerLists, cutoff \in Cutoffs :
        /\ honestPeers' = peers
        /\ cutoffIndex' = cutoff
    /\ pc' = "peers"
    /\ UNCHANGED <<surge, verdict>>
    /\ UNCHANGED ladderVars

\* outcome, err := surgeAttack(honestPeers, cutoff)
SurgeAttack ==
    /\ pc = "peers"
    /\ surge' = surgeAttack(honestPeers, cutoffIndex)
    /\ honestPeers' = surge'.peers
    /\ pc' = "surged"
    /\ UNCHANGED <<cutoffIndex, verdict>>
    /\ UNCHANGED ladderVars

\* success, err := outcome.success()
Success ==
    /\ pc = "surged"
    /\ ~surge.err
    /\ verdict' = success(surge.outcome)
    /\ pc' = "judged"
    /\ UNCHANGED <<honestPeers, cutoffIndex, surge>>
    /\ UNCHANGED ladderVars

Next ==
    \/ NewLadderingAttack
    \/ TotalEndorsedOnTarget
    \/ AttackOutcome
    \/ FuzzSurgeInput
    \/ SurgeAttack
    \/ Success

Spec == Init /\ [][Next]_vars

\* --------------------------------------------------------------- claims

Flows == cfg.trafficFlows

Channels == ladder.channels

\* The scenarios FuzzLadderAttack lets through to its check.
ValidFlows == Len(Flows) \in 3..10 /\ \A i \in 1..Len(Flows) : Flows[i] \in 1..100

ValidHold == Le(U64(1), htlcHold) /\ Le(htlcHold, U64(protocolMaxHold))

\* The target hop (ladder[-2]) and the final hop (ladder[-1]).
TargetHop == Channels[Len(Channels) - 1]

FinalHop == Channels[Len(Channels)]

\* C1: for 3 to 10 flows in [1,100], a hold in [1,2016] and a ladder whose
\* outgoingRevenue does not decrease, the outcome of totalEndorsedOnTarget
\* followed by attackOutcome is never effective for the attacker's payment.
C1_NoEffectiveLadderAttack ==
    (/\ pc = "evaluated"
     /\ ValidFlows
     /\ ValidHold
     /\ RevenueIncreasing(Channels))
        => ~effective(outcome, attackerPayment)

\* The peers FuzzSurgeAttack lets through: two or more, each amount in
\* [1, 10^11], and a cutoff that indexes them.
ValidSurgeInput ==
    /\ Len(honestPeers) >= 2
    /\ \A i \in 1..Len(honestPeers) :
        Le(U64(1), honestPeers[i]) /\ Le(honestPeers[i], MaxPeerAmount)
    /\ cutoffIndex \in 0..(Len(honestPeers) - 1)

\* C2: for two or more peers with amounts in [1, 10^11] and a valid cutoff,
\* surgeAttack returns no error and success() returns false with no error.
C2_NoSuccessfulSurge ==
    (pc \in {"surged", "judged"} /\ ValidSurgeInput)
        => /\ ~surge.err
           /\ pc = "judged" => verdict = [success |-> FALSE, err |-> FALSE]

\* The traffic carried into flow i: firstNodeTraffic, then the reputation of
\* the channel before.
RunningBefore(i) ==
    IF i = 1 THEN cfg.firstNodeTraffic ELSE Channels[i - 1].incomingReputation

SeedReputations == <<U64(120000), U64(1200000), U64(4800000), U64(9600000)>>

SeedRevenues == <<U64(10000), U64(100000), U64(400000), U64(800000)>>

\* C3: for at least 3 flows in [1,100], newLadderingAttack returns one
\* channel per flow, in order, with incomingReputation = running * 100 / p
\* and outgoingRevenue = incomingReputation * 2 / 24 (uint64 arithmetic,
\* truncating division); 120000 with [100,10,25,50] gives the reputations
\* [120000,1200000,4800000,9600000] and revenues [10000,100000,400000,800000].
C3_LadderFormula ==
    (pc = "built" /\ Len(Flows) >= 3 /\ \A i \in 1..Len(Flows) : Flows[i] \in 1..100)
        => /\ ladder.status = "ok"
           /\ Len(Channels) = Len(Flows)
           /\ \A i \in 1..Len(Flows) :
                /\ Channels[i].incomingReputation =
                       Div(Mul(RunningBefore(i), U64(100)), U64(Flows[i]))
                /\ Channels[i].outgoingRevenue =
                       Div(Mul(Channels[i].incomingReputation, U64(2)), U64(24))
           /\ cfg = SeedCfg =>
                /\ [i \in 1..4 |-> Channels[i].incomingReputation] = SeedReputations
                /\ [i \in 1..4 |-> Channels[i].outgoingRevenue] = SeedRevenues

C3_Witness ==
    /\ pc = "built"
    /\ cfg = SeedCfg
    /\ ladder.status = "ok"
    /\ Len(Channels) = 4

\* The hops totalEndorsedOnTarget walks, the candidate reputation it holds
\* at hop i and the capacity of hop i under hold h, as C4 states them.
Hops == 1..(Len(Channels) - 1)

Candidate(i) ==
    IF i = 1 THEN attackerPayment ELSE Channels[i - 1].incomingReputation

Capacity(i, h) ==
    Div(Mul(Sub(Candidate(i), Channels[i].outgoingRevenue), U64(90)),
        Mul(h, U64(600)))

Blocked(h) ==
    \E i \in Hops :
        \/ Lt(Candidate(i), Channels[i].outgoingRevenue)
        \/ Capacity(i, h) = Zero

IsMinCapacity(v, h) ==
    /\ \E i \in Hops : v = Capacity(i, h)
    /\ \A i \in Hops : Le(v, Capacity(i, h))

C5_NoAttackBelowThreshold ==
    (pc = "evaluated"
     /\ Lt(TargetHop.incomingReputation, FinalHop.outgoingRevenue))
        => /\ outcome.reputationChange = Zero
           /\ \A p \in Payments : ~effective(outcome, p)

\* What totalEndorsedOnTarget returns for the state's ladder and payment
\* under another hold.
EndorsedUnder(h) == totalEndorsedOnTarget(Channels, attackerPayment, h).value

\* hold * 600 does not overflow a uint64.
HoldFits(h) == Div(Mul(h, U64(600)), U64(600)) = h

\* C6 as stated: for holds hold1 <= hold2, both > 0, the endorsed total
\* under hold2 is at most the endorsed total under hold1.
C6_HoldMonotone ==
    (pc = "endorsed" /\ htlcHold # Zero)
        => \A h2 \in Holds :
            Le(htlcHold, h2) => Le(EndorsedUnder(h2), endorsed.value)

\* C6 amended: the same for holds whose hold * 600 does not overflow a
\* uint64 (every hold up to the protocol maximum of 2016 is one).
C6_HoldMonotoneNoOverflow ==
    (pc = "endorsed" /\ htlcHold # Zero)
        => \A h2 \in Holds :
            (Le(htlcHold, h2) /\ HoldFits(h2))
                => Le(EndorsedUnder(h2), endorsed.value)

C6_Witness ==
    /\ pc = "endorsed"
    /\ htlcHold = U64(1)
    /\ HoldFits(U64(300))
    /\ EndorsedUnder(U64(300)) # Zero
    /\ Lt(EndorsedUnder(U64(300)), endorsed.value)

\* cost(a, h) = a * h * 600 / 90
Cost(a, h) == Div(Mul(Mul(a, h), U64(600)), U64(90))

\* C7: attackOutcome(totalEndorsed, hold) returns targetReputation =
\* ladder[-2].incomingReputation, targetThreshold = ladder[-1].outgoingRevenue,
\* targetCost = ladder[-2].outgoingRevenue + cost(totalEndorsed, hold), and
\* reputationChange = cost(totalEndorsed, hold) whenever targetReputation >=
\* targetThreshold; on the seed ladder with totalEndorsed 10 and hold 300,
\* effective(30000) is false.
C7_OutcomeFields ==
    pc = "evaluated"
        => /\ outcome.targetReputation = TargetHop.incomingReputation
           /\ outcome.targetThreshold = FinalHop.outgoingRevenue
           /\ outcome.targetCost =
                  Add(TargetHop.outgoingRevenue, Cost(endorsed.value, htlcHold))
           /\ Le(outcome.targetThreshold, outcome.targetReputation)
                => outcome.reputationChange = Cost(endorsed.value, htlcHold)
           /\ (cfg = SeedCfg /\ endorsed.value = U64(10) /\ htlcHold = U64(300))
                => ~effective(outcome, U64(30000))

C7_Witness ==
    /\ pc = "evaluated"
    /\ cfg = SeedCfg
    /\ endorsed.value = U64(10)
    /\ htlcHold = U64(300)
    /\ outcome.reputationChange = U64(20000)
    /\ outcome.targetCost = U64(420000)

\* C8: for a fixed outcome, effective(payment) is ladderCheaper(payment) and
\* lostReputation(), and as the payment grows it never goes from false back
\* to true (so it goes from true to false at most once).
C8_EffectiveSingleCrossing ==
    pc = "evaluated"
        => \A p1 \in Payments, p2 \in Payments :
            /\ effective(outcome, p1) =
                   (Lt(p1, outcome.targetCost) /\ lostReputation(outcome))
            /\ (Le(p1, p2) /\ effective(outcome, p2)) => effective(outcome, p1)

C8_Witness ==
    /\ pc = "evaluated"
    /\ \E p1 \in Payments, p2 \in Payments :
        Lt(p1, p2) /\ effective(outcome, p1) /\ ~effective(outcome, p2)

\* C9: every ladder newLadderingAttack returns without error has an
\* outgoingRevenue that does not decrease along the route.
C9_BuiltLadderMonotone ==
    ladder.status = "ok"
        => \A i \in 2..Len(Channels) :
            Le(Channels[i - 1].outgoingRevenue, Channels[i].outgoingRevenue)

\* C10: newLadderingAttack returns an error and no ladder whenever a traffic
\* flow percentage is 0 or greater than 100.
C10_InvalidFlowRejected ==
    (pc # "idle" /\ \E i \in 1..Len(Flows) : Flows[i] = 0 \/ Flows[i] > 100)
        => ladder.status = "error" /\ Channels = <<>>

\* How the call of totalEndorsedOnTarget ended.  Its signature returns a
\* uint64 and nothing else, so a call ends with a value or with the
\* run-time panic of the division; it has no error result to end with.
EndorsedResult == IF endorsed.panic THEN "panic" ELSE "value"

\* C11: with a hold of 0, totalEndorsedOnTarget ends with an explicit error
\* result (InsufficientHoldDurationError), not with a crash or a value.
C11_ZeroHoldIsError ==
    (pc = "endorsed" /\ htlcHold = Zero) => EndorsedResult = "error"

\* C12: success() returns the InvariantViolation error for every outcome
\* whose attackRevenue exceeds its peaceRevenue, whatever cutoffReputation
\* is; it never answers false without an error there.
C12_ViolationNeverMasked ==
    (pc = "judged" /\ Lt(surge.outcome.peaceRevenue, surge.outcome.attackRevenue))
        => verdict.err

\* C13: for strictly positive peer amounts and a cutoff that indexes them,
\* the outcome surgeAttack returns has attackRevenue <= peaceRevenue.
C13_AttackRevenueAtMostPeace ==
    (/\ pc = "surged"
     /\ cutoffIndex \in 0..(Len(honestPeers) - 1)
     /\ \A i \in 1..Len(honestPeers) : honestPeers[i] # Zero)
        => /\ ~surge.err
           /\ Le(surge.outcome.attackRevenue, surge.outcome.peaceRevenue)

\* The contribution a * 2 / 24 of one peer amount, truncated.
Contribution(a) == Div(Mul(a, U64(2)), U64(24))

\* The sum of the contributions of peers[from..to].
RECURSIVE SumContributions(_, _, _)
SumContributions(peers, from, to) ==
    IF from > to THEN Zero
    ELSE Add(SumContributions(peers, from, to - 1), Contribution(peers[to]))

\* v is the amount at rank k (from 0) of the amounts in ascending order:
\* at most k amounts are below it and more than k are not above it.
IsAmountAtRank(peers, v, k) ==
    /\ \E i \in 1..Len(peers) : peers[i] = v
    /\ Cardinality({i \in 1..Len(peers) : Lt(peers[i], v)}) <= k
    /\ Cardinality({i \in 1..Len(peers) : Le(peers[i], v)}) > k

\* C14: with a valid cutoffIndex surgeAttack returns peaceRevenue = the sum
\* of a_i * 2 / 24 over all peers, cutoffReputation = the amount at rank
\* cutoffIndex in ascending order (the largest of the ranks up to it), and
\* attackRevenue = the sum of a_i * 2 / 24 over the ranks above cutoffIndex.
C14_SurgeFields ==
    (pc = "surged" /\ cutoffIndex \in 0..(Len(honestPeers) - 1))
        => LET n == Len(honestPeers)
               s == surge.outcome
           IN  /\ ~surge.err
               /\ \A i \in 2..n : Le(honestPeers[i - 1], honestPeers[i])
               /\ s.peaceRevenue = SumContributions(honestPeers, 1, n)
               /\ IsAmountAtRank(honestPeers, s.cutoffReputation, cutoffIndex)
               /\ \A i \in 1..(cutoffIndex + 1) :
                    Le(honestPeers[i], s.cutoffReputation)
               /\ s.attackRevenue =
                    SumContributions(honestPeers, cutoffIndex + 2, n)

\* Three peers of different amounts cut off at the middle rank: the peer
\* above the cutoff alone earns the attack revenue.
C14_Witness ==
    /\ pc = "surged"
    /\ ~surge.err
    /\ Len(honestPeers) = 3
    /\ cutoffIndex = 1
    /\ Lt(honestPeers[1], honestPeers[2]) /\ Lt(honestPeers[2], honestPeers[3])
    /\ surge.outcome.cutoffReputation = honestPeers[2]
    /\ surge.outcome.attackRevenue = Contribution(honestPeers[3])
    /\ Lt(surge.outcome.attackRevenue, surge.outcome.peaceRevenue)

\* floor = cost(1700000, 100) = 1700000 * 100 * 600 / 90.
SurgeFloor == Div(Mul(Mul(U64(1700000), U64(100)), U64(600)), U64(90))

\* C15: for an outcome with attackRevenue <= peaceRevenue, success() returns
\* false when cutoffReputation < peaceRevenue + floor, and otherwise returns
\* true exactly when (cutoffReputation - peaceRevenue) + attackRevenue <
\* peaceRevenue; it returns no error.
C15_SuccessFormula ==
    LET s == surge.outcome
    IN  (pc = "judged" /\ Le(s.attackRevenue, s.peaceRevenue))
            => /\ ~verdict.err
               /\ Lt(s.cutoffReputation, Add(s.peaceRevenue, SurgeFloor))
                    => ~verdict.success
               /\ ~Lt(s.cutoffReputation, Add(s.peaceRevenue, SurgeFloor))
                    => (verdict.success <=>
                            Lt(Add(Sub(s.cutoffReputation, s.peaceRevenue),
                                   s.attackRevenue),
                               s.peaceRevenue))

\* An outcome whose cutoffReputation is at least the peacetime revenue but
\* short of the floor above it, and whose take under attack is below the
\* peacetime revenue: the floor alone makes success() answer false.
C15_Witness ==
    LET s == surge.outcome
    IN  /\ pc = "judged"
        /\ Le(s.attackRevenue, s.peaceRevenue)
        /\ Le(s.peaceRevenue, s.cutoffReputation)
        /\ Lt(s.cutoffReputation, Add(s.peaceRevenue, SurgeFloor))
        /\ Lt(Add(Sub(s.cutoffReputation, s.peaceRevenue), s.attackRevenue),
              s.peaceRevenue)
        /\ ~verdict.success
        /\ ~verdict.err

\* C16: surgeAttack returns an error and no outcome for every input with
\* cutoffIndex >= len(honestPeers), the empty peer list included.
C16_CutoffOutOfRangeRejected ==
    (pc = "surged" /\ cutoffIndex >= Len(honestPeers))
        => /\ surge.err
           /\ surge.outcome = SurgeOutcome(Zero, Zero, Zero)

\* Two peers and cutoffIndex 5, rejected.
C16_Witness ==
    /\ pc = "surged"
    /\ Len(honestPeers) = 2
    /\ cutoffIndex = 5
    /\ surge.err

\* C17: newLadderingAttack returns an error and no ladder whenever
\* trafficFlows has fewer than 3 entries, and every ladder it returns has at
\* least 3 channels.
C17_ShortRouteRejected ==
    pc = "built"
        => /\ Len(Flows) < 3 => (ladder.status = "error" /\ Channels = <<>>)
           /\ ladder.status = "ok" => Len(Channels) >= 3

\* A route of two valid flows, rejected.
C17_Witness ==
    /\ pc = "built"
    /\ Len(Flows) = 2
    /\ \A i \in 1..2 : Flows[i] \in 1..100
    /\ ladder.status = "error"
    /\ Channels = <<>>

\* C18: surgeAttack has no side effect on its inputs: after any call,
\* successful or failing, the caller's honestPeers holds the same amounts
\* in the same order as before the call.
C18_InputsUnchanged ==
    [][pc = "peers" /\ pc' = "surged" => honestPeers' = honestPeers]_vars

\* The reputation surplus at hop i: what the candidate reputation has above
\* the hop's threshold.
Surplus(i) == Sub(Candidate(i), Channels[i].outgoingRevenue)

\* C19: the capacity formula of totalEndorsedOnTarget and the cost formula
\* htlcReputationCost are inverse up to truncation: for a surplus s and a
\* hold h >= 1, cost(capacity(s, h), h) <= s.
C19_CostOfCapacityWithinSurplus ==
    (pc = "endorsed" /\ htlcHold # Zero)
        => \A i \in Hops :
            Le(Channels[i].outgoingRevenue, Candidate(i))
                => Le(htlcReputationCost(
                          CurrentHopEndorsed(Channels, attackerPayment,
                                             htlcHold, i),
                          htlcHold),
                      Surplus(i))

\* A hop with a surplus of 20000 under a hold of 300: the capacity is 10
\* and its cost, 20000, gives the whole surplus back; and a later hop whose
\* capacity costs strictly less than its surplus.
C19_Witness ==
    /\ pc = "endorsed"
    /\ htlcHold = U64(300)
    /\ Surplus(1) = U64(20000)
    /\ CurrentHopEndorsed(Channels, attackerPayment, htlcHold, 1) = U64(10)
    /\ htlcReputationCost(U64(10), htlcHold) = U64(20000)
    /\ \E i \in Hops :
        /\ Le(Channels[i].outgoingRevenue, Candidate(i))
        /\ CurrentHopEndorsed(Channels, attackerPayment, htlcHold, i) # Zero
        /\ Lt(htlcReputationCost(
                  CurrentHopEndorsed(Channels, attackerPayment, htlcHold, i),
                  htlcHold),
              Surplus(i))
====
